---- MODULE Spec2Model ----
(***************************************************************************)
(* The tree store of the TreeView component (the variant with              *)
(* updateParentCheckboxes): a flat mapping from node identifier to node    *)
(* record plus a root identifier, and the handlers that replace it.        *)
(* A handler runs to completion on the snapshot `tree` it closes over and   *)
(* hands setTree one new snapshot; React installs that snapshot with the   *)
(* re-render that follows the handler, before any other handler can run.   *)
(***************************************************************************)
EXTENDS Integers, Sequences, FiniteSets, TLC

(* Bounds of the model. *)
MaxId == 4        \* identifiers crypto.randomUUID() may hand out: 1..MaxId

VARIABLES nodes, rootId, nextId, call

vars == <<nodes, rootId, nextId, call>>

Ids == 1 .. MaxId
NoParent == 0     \* the absent optional `parent` field
RootData == "Root"
DataInputs == {"x"}   \* label texts a caller passes

(* ---------------------------------------------------------------------- *)
(* Plain-object helpers: spread with one computed key, and `delete`.      *)
(* ---------------------------------------------------------------------- *)
Put(m, k, v) == [x \in (DOMAIN m) \cup {k} |-> IF x = k THEN v ELSE m[x]]

Remove(m, k) == [x \in (DOMAIN m) \ {k} |-> m[x]]

EmptyMap == [x \in {} |-> 0]

RECURSIVE Filter(_, _)
Filter(s, drop) ==
    IF s = <<>> THEN <<>>
    ELSE IF Head(s) = drop THEN Filter(Tail(s), drop)
         ELSE <<Head(s)>> \o Filter(Tail(s), drop)

(* ---------------------------------------------------------------------- *)
(* Node updaters and the default tree.                                    *)
(* ---------------------------------------------------------------------- *)
setClosed(n) == [n EXCEPT !.isOpen = FALSE]

setOpen(n) == [n EXCEPT !.isOpen = TRUE]

(* A default tree whose root starts closed. *)
createDefaultTreeView_Closed(uuid) ==
    [rootId |-> uuid,
     nodes |-> Put(EmptyMap, uuid,
                   [key |-> uuid, data |-> RootData, children |-> <<>>,
                    level |-> 0, isOpen |-> FALSE,
                    selectedState |-> "Unselected", parent |-> NoParent])]

createDefaultTreeView(uuid) ==
    [rootId |-> uuid,
     nodes |-> Put(EmptyMap, uuid,
                   [key |-> uuid, data |-> RootData, children |-> <<>>,
                    level |-> 0, isOpen |-> TRUE,
                    selectedState |-> "Unselected", parent |-> NoParent])]

(* An updater that flips isOpen instead of setting it. *)
Updater_Flips(name, n) == [n EXCEPT !.isOpen = ~n.isOpen]

Updater(name, n) == IF name = "setClosed" THEN setClosed(n) ELSE setOpen(n)

(* A modify that updates the starting node and does not descend. *)
modifyOpenState_TargetOnly(updatedNodes, work, name) ==
    [updatedNodes EXCEPT ![Head(work)] = Updater(name, updatedNodes[Head(work)])]

(* modify(key) of modifyRecursively: the updater on the node, then on each *)
(* child in order; `work` is the pending calls, first one at the head.     *)
RECURSIVE modifyOpenState(_, _, _)
modifyOpenState(updatedNodes, work, name) ==
    IF work = <<>> THEN updatedNodes
    ELSE LET key == Head(work)
             upd == [updatedNodes EXCEPT ![key] = Updater(name, updatedNodes[key])]
         IN modifyOpenState(upd, upd[key].children \o Tail(work), name)

(* A modify that sets the starting node and does not descend. *)
modifySelected_TargetOnly(updatedNodes, work, toggleTo) ==
    [updatedNodes EXCEPT ![Head(work)].selectedState = toggleTo]

(* modify(key) of setSelected. *)
RECURSIVE modifySelected(_, _, _)
modifySelected(updatedNodes, work, toggleTo) ==
    IF work = <<>> THEN updatedNodes
    ELSE LET key == Head(work)
             upd == [updatedNodes EXCEPT ![key].selectedState = toggleTo]
         IN modifySelected(upd, upd[key].children \o Tail(work), toggleTo)

(* ---------------------------------------------------------------------- *)
(* updateParentCheckboxes                                                  *)
(* ---------------------------------------------------------------------- *)
Every(states, s) == \A i \in 1 .. Len(states) : states[i] = s

(* The aggregation without the case of the empty list: `every` holds of    *)
(* no elements.                                                            *)
NextState_NoEmptyCase(childStates) ==
    IF Every(childStates, "Selected") THEN "Selected"
    ELSE IF Every(childStates, "Unselected") THEN "Unselected"
    ELSE "Partial"

NextState(childStates) ==
    IF Len(childStates) = 0 THEN "Unselected"
    ELSE IF Every(childStates, "Selected") THEN "Selected"
    ELSE IF Every(childStates, "Unselected") THEN "Unselected"
    ELSE "Partial"

(* The while loop: curr is the node under currKey, absent when the key is  *)
(* no key of updatedNodes (the lookup yields undefined and the loop ends). *)
RECURSIVE parentWalk(_, _)
parentWalk(currKey, updatedNodes) ==
    IF currKey \notin DOMAIN updatedNodes THEN updatedNodes
    ELSE LET curr == updatedNodes[currKey]
             childStates == [i \in 1 .. Len(curr.children) |->
                                updatedNodes[curr.children[i]].selectedState]
             upd == Put(updatedNodes, curr.key,
                        [curr EXCEPT !.selectedState = NextState(childStates)])
         IN IF curr.parent # NoParent
            THEN parentWalk(curr.parent, upd)
            ELSE upd

updateParentCheckboxes(node_key, updatedNodes) ==
    IF node_key = NoParent THEN updatedNodes
    ELSE parentWalk(node_key, updatedNodes)

(* ---------------------------------------------------------------------- *)
(* Stack loops                                                             *)
(* ---------------------------------------------------------------------- *)
(* A loop that deletes the popped key without pushing its children. *)
deleteLoop_TargetOnly(stack, newNodes) ==
    Remove(newNodes, stack[Len(stack)])

(* deleteNode: pop a key, push its children, delete the key. The top of   *)
(* the stack is the last element.                                          *)
RECURSIVE deleteLoop(_, _)
deleteLoop(stack, newNodes) ==
    IF stack = <<>> THEN newNodes
    ELSE LET key == stack[Len(stack)]
             rest == SubSeq(stack, 1, Len(stack) - 1)
             children == IF key \in DOMAIN newNodes
                         THEN newNodes[key].children ELSE <<>>
         IN deleteLoop(rest \o children, Remove(newNodes, key))

(* A filter that keeps the Unselected children only. *)
RECURSIVE keptChildren_UnselectedOnly(_, _)
keptChildren_UnselectedOnly(children, treeNodes) ==
    IF children = <<>> THEN <<>>
    ELSE IF treeNodes[Head(children)].selectedState = "Unselected"
         THEN <<Head(children)>> \o keptChildren_UnselectedOnly(Tail(children), treeNodes)
         ELSE keptChildren_UnselectedOnly(Tail(children), treeNodes)

(* deleteSelected: the children of curr that are not Selected.            *)
RECURSIVE keptChildren(_, _)
keptChildren(children, treeNodes) ==
    IF children = <<>> THEN <<>>
    ELSE IF treeNodes[Head(children)].selectedState # "Selected"
         THEN <<Head(children)>> \o keptChildren(Tail(children), treeNodes)
         ELSE keptChildren(Tail(children), treeNodes)

(* deleteSelected: the stack holds node keys (the nodes of `tree`); the   *)
(* result is the array newNodes.                                           *)
RECURSIVE selectedLoop(_, _, _)
selectedLoop(stack, newNodes, treeNodes) ==
    IF stack = <<>> THEN newNodes
    ELSE LET curr == treeNodes[stack[Len(stack)]]
             rest == SubSeq(stack, 1, Len(stack) - 1)
             childList == keptChildren(curr.children, treeNodes)
         IN selectedLoop(rest \o childList,
                         Append(newNodes, [curr EXCEPT !.children = childList]),
                         treeNodes)

RECURSIVE nodeArrToMap(_)
nodeArrToMap(arr) ==
    IF arr = <<>> THEN EmptyMap
    ELSE LET n == arr[Len(arr)]
         IN Put(nodeArrToMap(SubSeq(arr, 1, Len(arr) - 1)), n.key, n)

(* A loop that keeps the popped node without pushing its children. *)
rootLoop_RootOnly(stack, validNodes, treeNodes) ==
    LET node == treeNodes[stack[Len(stack)]]
    IN Put(validNodes, node.key, node)

(* setRoot: collect the subtree of the chosen node.                        *)
RECURSIVE rootLoop(_, _, _)
rootLoop(stack, validNodes, treeNodes) ==
    IF stack = <<>> THEN validNodes
    ELSE LET node == treeNodes[stack[Len(stack)]]
             rest == SubSeq(stack, 1, Len(stack) - 1)
         IN rootLoop(rest \o node.children, Put(validNodes, node.key, node),
                     treeNodes)

(* ---------------------------------------------------------------------- *)
(* State                                                                   *)
(* ---------------------------------------------------------------------- *)
(* nodes, rootId: the `tree` state of the component.                       *)
(* nextId: the next identifier crypto.randomUUID() returns.                *)
(* The component's counter `id` only supplies the label text the view      *)
(* passes to addChild; label texts are inputs of the handlers here.        *)
(* call: the handler that has returned and whose re-render is due: its     *)
(* name, its node argument, its label argument, whether it gave up, and    *)
(* the tree the re-render installs (the tree itself when the handler       *)
(* returned without setTree).                                              *)
Invocation(op, key, data, outcome, newNodes, newRootId) ==
    [op |-> op, key |-> key, data |-> data, outcome |-> outcome,
     nodes |-> newNodes, rootId |-> newRootId]

Idle == Invocation("idle", 0, "", "done", EmptyMap, 0)

Init ==
    /\ nodes = createDefaultTreeView(1).nodes
    /\ rootId = createDefaultTreeView(1).rootId
    /\ nextId = 2
    /\ call = Idle

(* ---------------------------------------------------------------------- *)
(* Handlers                                                                *)
(* ---------------------------------------------------------------------- *)
(* addChild that leaves the parent's child list as it was. *)
addChildNodes_Unlinked(parent, data, uuid, prevNodes) ==
    LET childState == IF parent.selectedState = "Selected"
                      THEN "Selected" ELSE "Unselected"
        newChild == [key |-> uuid, data |-> data, children |-> <<>>,
                     level |-> parent.level + 1, isOpen |-> TRUE,
                     selectedState |-> childState, parent |-> parent.key]
    IN Put(Put(prevNodes, uuid, newChild), parent.key,
           [prevNodes[parent.key] EXCEPT !.children = parent.children])

(* addChild whose new leaf is Unselected whatever the parent is. *)
addChildNodes_AlwaysUnselected(parent, data, uuid, prevNodes) ==
    LET newChild == [key |-> uuid, data |-> data, children |-> <<>>,
                     level |-> parent.level + 1, isOpen |-> TRUE,
                     selectedState |-> "Unselected", parent |-> parent.key]
    IN Put(Put(prevNodes, uuid, newChild), parent.key,
           [prevNodes[parent.key] EXCEPT
               !.children = Append(parent.children, uuid)])

(* addChild that puts the new identifier first in the child list. *)
addChildNodes_Prepend(parent, data, uuid, prevNodes) ==
    LET childState == IF parent.selectedState = "Selected"
                      THEN "Selected" ELSE "Unselected"
        newChild == [key |-> uuid, data |-> data, children |-> <<>>,
                     level |-> parent.level + 1, isOpen |-> TRUE,
                     selectedState |-> childState, parent |-> parent.key]
    IN Put(Put(prevNodes, uuid, newChild), parent.key,
           [prevNodes[parent.key] EXCEPT
               !.children = <<uuid>> \o parent.children])

(* addChild whose new leaf gets the parent's level. *)
addChildNodes_SameLevel(parent, data, uuid, prevNodes) ==
    LET childState == IF parent.selectedState = "Selected"
                      THEN "Selected" ELSE "Unselected"
        newChild == [key |-> uuid, data |-> data, children |-> <<>>,
                     level |-> parent.level, isOpen |-> TRUE,
                     selectedState |-> childState, parent |-> parent.key]
    IN Put(Put(prevNodes, uuid, newChild), parent.key,
           [prevNodes[parent.key] EXCEPT
               !.children = Append(parent.children, uuid)])

addChildNodes(parent, data, uuid, prevNodes) ==
    LET childState == IF parent.selectedState = "Selected"
                      THEN "Selected" ELSE "Unselected"
        newChild == [key |-> uuid, data |-> data, children |-> <<>>,
                     level |-> parent.level + 1, isOpen |-> TRUE,
                     selectedState |-> childState, parent |-> parent.key]
        \* { ...prev.nodes[parent.key], children: [...] }: the spread of a
        \* missing entry contributes no field
        parentEntry == IF parent.key \in DOMAIN prevNodes
                       THEN [prevNodes[parent.key] EXCEPT
                                !.children = Append(parent.children, uuid)]
                       ELSE [children |-> Append(parent.children, uuid)]
    IN Put(Put(prevNodes, uuid, newChild), parent.key, parentEntry)

AddChild(k, data) ==
    /\ call = Idle
    /\ nextId <= MaxId
    /\ k \in DOMAIN nodes
    /\ call' = Invocation("addChild", k, data, "done",
                          addChildNodes(nodes[k], data, nextId, nodes), rootId)
    /\ nextId' = nextId + 1
    /\ UNCHANGED <<nodes, rootId>>

toggleChildrenVisibilityNodes(node, prevNodes) ==
    Put(prevNodes, node.key, [prevNodes[node.key] EXCEPT !.isOpen = ~node.isOpen])

ToggleChildrenVisibility(k) ==
    /\ call = Idle
    /\ k \in DOMAIN nodes
    /\ call' = Invocation("toggleChildrenVisibility", k, "", "done",
                          toggleChildrenVisibilityNodes(nodes[k], nodes), rootId)
    /\ UNCHANGED <<nodes, rootId, nextId>>

modifyRecursively(parent, name, treeNodes) ==
    modifyOpenState(treeNodes, <<parent.key>>, name)

FoldRecursively(k) ==
    /\ call = Idle
    /\ k \in DOMAIN nodes
    /\ call' = Invocation("foldRecursively", k, "", "done",
                          modifyRecursively(nodes[k], "setClosed", nodes), rootId)
    /\ UNCHANGED <<nodes, rootId, nextId>>

ExpandRecursively(k) ==
    /\ call = Idle
    /\ k \in DOMAIN nodes
    /\ call' = Invocation("expandRecursively", k, "", "done",
                          modifyRecursively(nodes[k], "setOpen", nodes), rootId)
    /\ UNCHANGED <<nodes, rootId, nextId>>

(* deleteNode: the guard on the root, and the mapping handed to setTree.   *)
(* A guard that takes the node without a parent identifier for the root. *)
deleteNodeRejects_NoParent(node, treeRootId) == node.parent = NoParent

deleteNodeRejects(node, treeRootId) == node.key = treeRootId

deleteNodeNodes(node, treeNodes) ==
    LET parent == treeNodes[node.parent]
        unlinked == Put(treeNodes, parent.key,
                        [parent EXCEPT !.children = Filter(parent.children, node.key)])
        pruned == deleteLoop(<<node.key>>, unlinked)
    IN updateParentCheckboxes(parent.key, pruned)

(* The deleteNode of src/components/TreeView.tsx: the same unlinking and    *)
(* stack loop, and no call of updateParentCheckboxes before setTree.       *)
(* A variant of it that recomputes the ancestors all the same. *)
deleteNodeNodesTsx_Recomputes(node, treeNodes) == deleteNodeNodes(node, treeNodes)

deleteNodeNodesTsx(node, treeNodes) ==
    LET parent == treeNodes[node.parent]
        unlinked == Put(treeNodes, parent.key,
                        [parent EXCEPT !.children = Filter(parent.children, node.key)])
    IN deleteLoop(<<node.key>>, unlinked)

DeleteNode(k) ==
    /\ call = Idle
    /\ k \in DOMAIN nodes
    /\ call' = IF deleteNodeRejects(nodes[k], rootId)
               THEN Invocation("deleteNode", k, "", "rejected", nodes, rootId)
               ELSE IF nodes[k].parent \notin DOMAIN nodes
               THEN \* parent.key of undefined throws before setTree
                    Invocation("deleteNode", k, "", "threw", nodes, rootId)
               ELSE Invocation("deleteNode", k, "", "done",
                               deleteNodeNodes(nodes[k], nodes), rootId)
    /\ UNCHANGED <<nodes, rootId, nextId>>

ResetTree ==
    /\ call = Idle
    /\ nextId <= MaxId
    /\ call' = Invocation("resetTree", 0, "", "done",
                          createDefaultTreeView(nextId).nodes,
                          createDefaultTreeView(nextId).rootId)
    /\ nextId' = nextId + 1
    /\ UNCHANGED <<nodes, rootId>>

(* A toggle that sends a Partial node to Unselected. *)
ToggleTo_PartialClears(node) ==
    IF node.selectedState = "Unselected" THEN "Selected" ELSE "Unselected"

(* A toggle that selects whatever the node's state is. *)
ToggleTo_AlwaysSelects(node) == "Selected"

ToggleTo(node) == IF node.selectedState = "Selected" THEN "Unselected" ELSE "Selected"

(* A cascade that starts one level too high, at the target's parent. *)
setSelectedNodes_FromParent(node, treeNodes) ==
    LET start == IF node.parent \in DOMAIN treeNodes THEN node.parent ELSE node.key
    IN updateParentCheckboxes(node.parent,
                              modifySelected(treeNodes, <<start>>, ToggleTo(node)))

setSelectedNodes(node, treeNodes) ==
    updateParentCheckboxes(node.parent,
                           modifySelected(treeNodes, <<node.key>>, ToggleTo(node)))

SetSelected(k) ==
    /\ call = Idle
    /\ k \in DOMAIN nodes
    /\ call' = Invocation("setSelected", k, "", "done",
                          setSelectedNodes(nodes[k], nodes), rootId)
    /\ UNCHANGED <<nodes, rootId, nextId>>

(* An update that leaves out the spread of prev.nodes. *)
editNodeDataNodes_ForgetsRest(node, data, prevNodes) ==
    Put(EmptyMap, node.key, [prevNodes[node.key] EXCEPT !.data = data])

editNodeDataNodes(node, data, prevNodes) ==
    Put(prevNodes, node.key, [prevNodes[node.key] EXCEPT !.data = data])

EditNodeData(k, data) ==
    /\ call = Idle
    /\ k \in DOMAIN nodes
    /\ call' = Invocation("editNodeData", k, data, "done",
                          editNodeDataNodes(nodes[k], data, nodes), rootId)
    /\ UNCHANGED <<nodes, rootId, nextId>>

(* deleteSelected: the guard on the root, and the mapping handed to        *)
(* setTree.                                                                *)
(* A guard that tests for a state name the type does not have. *)
deleteSelectedRejects_Full(treeNodes, treeRootId) ==
    treeNodes[treeRootId].selectedState = "Full"

deleteSelectedRejects(treeNodes, treeRootId) ==
    treeNodes[treeRootId].selectedState = "Selected"

(* deleteSelected without the pass that resets selectedState. *)
resetSelected_Skipped(arr) == arr

resetSelected(arr) ==
    [i \in 1 .. Len(arr) |-> [arr[i] EXCEPT !.selectedState = "Unselected"]]

deleteSelectedNodes(treeNodes, treeRootId) ==
    LET newNodes == selectedLoop(<<treeRootId>>, <<>>, treeNodes)
        newNodesUpdated == resetSelected(newNodes)
    IN nodeArrToMap(newNodesUpdated)

DeleteSelected ==
    /\ call = Idle
    /\ call' = IF deleteSelectedRejects(nodes, rootId)
               THEN Invocation("deleteSelected", 0, "", "rejected", nodes, rootId)
               ELSE Invocation("deleteSelected", 0, "", "done",
                               deleteSelectedNodes(nodes, rootId), rootId)
    /\ UNCHANGED <<nodes, rootId, nextId>>

(* setRoot that moves rootId and keeps the whole mapping. *)
setRootTree_KeepsAll(root, treeNodes) ==
    [rootId |-> root.key, nodes |-> treeNodes]

setRootTree(root, treeNodes) ==
    [rootId |-> root.key,
     nodes |-> rootLoop(<<root.key>>, EmptyMap, treeNodes)]

SetRoot(k) ==
    /\ call = Idle
    /\ k \in DOMAIN nodes
    /\ call' = Invocation("setRoot", k, "", "done",
                          setRootTree(nodes[k], nodes).nodes,
                          setRootTree(nodes[k], nodes).rootId)
    /\ UNCHANGED <<nodes, rootId, nextId>>

(* The re-render after a handler: useState returns the tree the handler   *)
(* handed to setTree.                                                      *)
Render ==
    /\ call # Idle
    /\ nodes' = call.nodes
    /\ rootId' = call.rootId
    /\ call' = Idle
    /\ UNCHANGED nextId

(* addChild called again before the re-render, with a node of the tree     *)
(* still on screen that the update already handed to setTree has removed:  *)
(* `parent` is that node and `prev` is the pending tree.                   *)
AddChildStale(k, data) ==
    /\ call # Idle
    /\ call.outcome = "done"
    /\ nextId <= MaxId
    /\ k \in DOMAIN nodes
    /\ k \notin DOMAIN call.nodes
    /\ call' = Invocation("addChild", k, data, "done",
                          addChildNodes(nodes[k], data, nextId, call.nodes),
                          call.rootId)
    /\ nextId' = nextId + 1
    /\ UNCHANGED <<nodes, rootId>>

(* The entries of a NodeMap are Node records. *)
NodeRecords(m) ==
    \A k \in DOMAIN m :
        DOMAIN m[k] = {"key", "data", "children", "level", "isOpen",
                       "selectedState", "parent"}

(* The re-render, followed only while the tree is a NodeMap. *)
RenderNodeMap ==
    /\ NodeRecords(call.nodes)
    /\ Render

Next ==
    \/ \E k \in Ids, d \in DataInputs : AddChild(k, d)
    \/ \E k \in Ids : ToggleChildrenVisibility(k)
    \/ \E k \in Ids : FoldRecursively(k)
    \/ \E k \in Ids : ExpandRecursively(k)
    \/ \E k \in Ids : DeleteNode(k)
    \/ ResetTree
    \/ \E k \in Ids : SetSelected(k)
    \/ \E k \in Ids, d \in DataInputs : EditNodeData(k, d)
    \/ DeleteSelected
    \/ \E k \in Ids : SetRoot(k)
    \/ Render

Spec == Init /\ [][Next]_vars

(* The handlers called with the nodes of the current tree, and addChild    *)
(* also with a node that has since been removed.                           *)
NextStale ==
    \/ \E k \in Ids, d \in DataInputs : AddChild(k, d)
    \/ \E k \in Ids : ToggleChildrenVisibility(k)
    \/ \E k \in Ids : FoldRecursively(k)
    \/ \E k \in Ids : ExpandRecursively(k)
    \/ \E k \in Ids : DeleteNode(k)
    \/ ResetTree
    \/ \E k \in Ids : SetSelected(k)
    \/ \E k \in Ids, d \in DataInputs : EditNodeData(k, d)
    \/ DeleteSelected
    \/ \E k \in Ids : SetRoot(k)
    \/ RenderNodeMap
    \/ \E k \in Ids, d \in DataInputs : AddChildStale(k, d)

SpecStale == Init /\ [][NextStale]_vars

(* ---------------------------------------------------------------------- *)
(* Vocabulary of the properties                                            *)
(* ---------------------------------------------------------------------- *)
Count(seq, x) == Cardinality({i \in 1 .. Len(seq) : seq[i] = x})

ChildSet(m, k) == {m[k].children[i] : i \in 1 .. Len(m[k].children)}

(* k and everything below it by child lists. *)
RECURSIVE SubtreeKeys(_, _)
SubtreeKeys(m, k) ==
    IF k \notin DOMAIN m THEN {k}
    ELSE {k} \cup UNION {SubtreeKeys(m, c) : c \in ChildSet(m, k)}

(* k and the nodes above it by parent identifiers, the root r left out. *)
RECURSIVE ChainBelowRoot(_, _, _)
ChainBelowRoot(m, r, k) ==
    IF k = r \/ k \notin DOMAIN m THEN {}
    ELSE {k} \cup ChainBelowRoot(m, r, m[k].parent)

Called(op) == call.op = op

Done(op) == call.op = op /\ call.outcome = "done"

Size(m) == Cardinality(DOMAIN m)

(* ---------------------------------------------------------------------- *)
(* C1 *)
LinkedToParent(m, r) ==
    \A k \in (DOMAIN m) \ {r} :
        /\ m[k].parent \in DOMAIN m
        /\ Count(m[m[k].parent].children, k) = 1

(* C1: in every reachable tree (the installed one and the one a handler   *)
(* has just handed to setTree) every node other than the root has a parent *)
(* identifier that is a key of the mapping, and that parent's child list   *)
(* contains the node's identifier exactly once.                            *)
C1_ParentChildLink ==
    /\ LinkedToParent(nodes, rootId)
    /\ call # Idle => LinkedToParent(call.nodes, call.rootId)

(* A re-rooted tree of three nodes in a chain, the middle one two levels   *)
(* below the discarded root.                                               *)
C1_Witness ==
    /\ call = Idle
    /\ nodes[rootId].parent # NoParent
    /\ Size(nodes) >= 3
    /\ \E k \in DOMAIN nodes : k # rootId /\ nodes[k].parent # rootId

(* ---------------------------------------------------------------------- *)
(* C2 *)
AllChildren(m, k, s) == \A c \in ChildSet(m, k) : m[c].selectedState = s

Aggregated(m) ==
    \A k \in DOMAIN m :
        Len(m[k].children) > 0 =>
            /\ m[k].selectedState = "Selected" <=> AllChildren(m, k, "Selected")
            /\ m[k].selectedState = "Unselected" <=> AllChildren(m, k, "Unselected")
            /\ m[k].selectedState = "Partial" <=>
                   (~AllChildren(m, k, "Selected") /\ ~AllChildren(m, k, "Unselected"))

(* C2: in every reachable tree every node with a non-empty child list is  *)
(* Selected iff all its children are Selected, Unselected iff all its      *)
(* children are Unselected, and Partial otherwise.                         *)
C2_SelectionAggregated ==
    /\ Aggregated(nodes)
    /\ call # Idle => Aggregated(call.nodes)

(* addChild under a Selected node that already has a child and is not the  *)
(* root.                                                                   *)
C2_Witness ==
    /\ Done("addChild")
    /\ call.key # rootId
    /\ nodes[call.key].selectedState = "Selected"
    /\ Len(nodes[call.key].children) > 0

(* ---------------------------------------------------------------------- *)
(* C3: deleteNode on the node whose key is rootId is rejected, and the    *)
(* mapping and rootId it leaves are those before the call.                 *)
C3_DeleteRootRejected ==
    (Called("deleteNode") /\ call.key = rootId) =>
        /\ call.outcome = "rejected"
        /\ call.nodes = nodes
        /\ call.rootId = rootId

(* deleteNode on the root of a tree that has children. *)
C3_Witness ==
    /\ Called("deleteNode")
    /\ call.key = rootId
    /\ Len(nodes[rootId].children) >= 2

(* ---------------------------------------------------------------------- *)
(* C4: deleteSelected on a tree whose root is Selected is rejected and    *)
(* leaves the mapping and rootId unchanged.                                *)
C4_DeleteSelectedRootRejected ==
    (Called("deleteSelected") /\ nodes[rootId].selectedState = "Selected") =>
        /\ call.outcome = "rejected"
        /\ call.nodes = nodes
        /\ call.rootId = rootId

(* deleteSelected on a Selected root that has children. *)
C4_Witness ==
    /\ Called("deleteSelected")
    /\ nodes[rootId].selectedState = "Selected"
    /\ Len(nodes[rootId].children) >= 1

(* ---------------------------------------------------------------------- *)
(* C5: after a deleteSelected that is not rejected every node of the       *)
(* mapping is Unselected.                                                  *)
C5_NothingSelectedLeft ==
    Done("deleteSelected") =>
        \A k \in DOMAIN call.nodes : call.nodes[k].selectedState = "Unselected"

(* A deleteSelected that removed something and kept a node that was       *)
(* Partial.                                                                *)
C5_Witness ==
    /\ Done("deleteSelected")
    /\ Size(call.nodes) < Size(nodes)
    /\ \E k \in DOMAIN call.nodes : nodes[k].selectedState = "Partial"

(* ---------------------------------------------------------------------- *)
(* C6 *)
NotSelected(m, seq) == SelectSeq(seq, LAMBDA c : m[c].selectedState # "Selected")

(* C6: after a deleteSelected that is not rejected, a node of the prior    *)
(* tree is in the new mapping iff neither it nor any ancestor of it below  *)
(* the root was Selected, and each surviving node's child list is its      *)
(* prior child list without the Selected children, in the same order.      *)
C6_SelectedSubtreesPruned ==
    Done("deleteSelected") =>
        /\ DOMAIN call.nodes \subseteq DOMAIN nodes
        /\ \A k \in DOMAIN nodes :
               k \in DOMAIN call.nodes <=>
                   \A a \in ChainBelowRoot(nodes, rootId, k) :
                       nodes[a].selectedState # "Selected"
        /\ \A k \in DOMAIN call.nodes :
               call.nodes[k].children = NotSelected(nodes, nodes[k].children)

(* A Partial child of the root is retained and loses one of its two        *)
(* children.                                                               *)
C6_Witness ==
    /\ Done("deleteSelected")
    /\ \E k \in DOMAIN call.nodes :
           /\ k # rootId
           /\ nodes[k].selectedState = "Partial"
           /\ Len(nodes[k].children) = 2
           /\ Len(call.nodes[k].children) = 1

(* ---------------------------------------------------------------------- *)
(* C7: setSelected(target) sets the target and every descendant to one     *)
(* value: Unselected if the target was Selected, Selected if it was        *)
(* Unselected or Partial.                                                  *)
C7_SubtreeToggled ==
    Called("setSelected") =>
        \A d \in SubtreeKeys(nodes, call.key) :
            call.nodes[d].selectedState =
                IF nodes[call.key].selectedState = "Selected"
                THEN "Unselected" ELSE "Selected"

(* The target is Partial and has a descendant that was Unselected and one  *)
(* that was Selected.                                                      *)
C7_Witness ==
    /\ Called("setSelected")
    /\ nodes[call.key].selectedState = "Partial"
    /\ \E d, e \in SubtreeKeys(nodes, call.key) :
           /\ nodes[d].selectedState = "Unselected"
           /\ nodes[e].selectedState = "Selected"

(* ---------------------------------------------------------------------- *)
(* C8 *)
SameButSelected(n, o) == n = [o EXCEPT !.selectedState = n.selectedState]

(* C8: setSelected(target) changes only selectedState fields, and only in  *)
(* the target's subtree and on the chain from the target's parent up to    *)
(* the root; the key set and rootId are unchanged and the walk goes no     *)
(* further than the root (the root's parent identifier is no key).         *)
C8_SetSelectedFrame ==
    Called("setSelected") =>
        LET touched == SubtreeKeys(nodes, call.key)
                       \cup ChainBelowRoot(nodes, rootId, call.key) \cup {rootId}
        IN /\ DOMAIN call.nodes = DOMAIN nodes
           /\ call.rootId = rootId
           /\ \A k \in DOMAIN nodes : SameButSelected(call.nodes[k], nodes[k])
           /\ \A k \in (DOMAIN nodes) \ touched : call.nodes[k] = nodes[k]
           /\ nodes[rootId].parent \notin DOMAIN nodes

(* setSelected below a re-rooted root, on a node that has a sibling, with   *)
(* the root's state changing.                                              *)
C8_Witness ==
    /\ Called("setSelected")
    /\ nodes[rootId].parent # NoParent
    /\ call.key # rootId
    /\ call.nodes[rootId].selectedState # nodes[rootId].selectedState
    /\ Len(nodes[nodes[call.key].parent].children) >= 2

(* ---------------------------------------------------------------------- *)
(* C9: addChild on a parent of the tree adds exactly one key; the new node *)
(* is a leaf one level below the parent, open, with the parent as parent   *)
(* and Selected iff the parent is Selected; the parent's child list gets   *)
(* the new identifier appended last; nothing else changes.                 *)
C9_AddChildEffect ==
    Called("addChild") =>
        LET parent == nodes[call.key]
            added == (DOMAIN call.nodes) \ (DOMAIN nodes)
        IN /\ Cardinality(added) = 1
           /\ DOMAIN nodes \subseteq DOMAIN call.nodes
           /\ call.rootId = rootId
           /\ \A u \in added :
                  /\ call.nodes[u] =
                         [key |-> u, data |-> call.data, children |-> <<>>,
                          level |-> parent.level + 1, isOpen |-> TRUE,
                          selectedState |-> IF parent.selectedState = "Selected"
                                            THEN "Selected" ELSE "Unselected",
                          parent |-> call.key]
                  /\ call.nodes[call.key] =
                         [parent EXCEPT !.children = Append(parent.children, u)]
           /\ \A k \in (DOMAIN nodes) \ {call.key} : call.nodes[k] = nodes[k]

(* addChild under a Partial node that has two children. *)
C9_Witness ==
    /\ Called("addChild")
    /\ nodes[call.key].selectedState = "Partial"
    /\ Len(nodes[call.key].children) = 2
    /\ Size(call.nodes) = Size(nodes) + 1

(* ---------------------------------------------------------------------- *)
(* C10 *)
Without(seq, x) == SelectSeq(seq, LAMBDA c : c # x)

(* C10: deleteNode on a node other than the root removes from the mapping  *)
(* exactly the target and its descendants and removes the target from its  *)
(* parent's child list; every identifier in a child list is then a key of  *)
(* the mapping and every other child list is unchanged.                    *)
C10_SubtreeDeleted ==
    (Called("deleteNode") /\ call.key # rootId) =>
        LET target == nodes[call.key]
        IN /\ DOMAIN call.nodes = (DOMAIN nodes) \ SubtreeKeys(nodes, call.key)
           /\ call.nodes[target.parent].children =
                  Without(nodes[target.parent].children, call.key)
           /\ \A k \in DOMAIN call.nodes :
                  ChildSet(call.nodes, k) \subseteq DOMAIN call.nodes
           /\ \A k \in (DOMAIN call.nodes) \ {target.parent} :
                  call.nodes[k].children = nodes[k].children

(* The target has a child of its own and a sibling after it. *)
C10_Witness ==
    /\ Done("deleteNode")
    /\ Len(nodes[call.key].children) >= 1
    /\ Len(call.nodes[nodes[call.key].parent].children) >= 1
    /\ nodes[nodes[call.key].parent].children[1] = call.key

(* ---------------------------------------------------------------------- *)
(* C11: setRoot(X) yields a tree whose rootId is X and whose mapping is    *)
(* the prior mapping restricted to X and its descendants, every retained   *)
(* record (level, parent, selectedState included) unchanged.               *)
C11_SetRootRestricts ==
    Called("setRoot") =>
        /\ call.rootId = call.key
        /\ DOMAIN call.nodes = SubtreeKeys(nodes, call.key)
        /\ Size(call.nodes) = Cardinality(SubtreeKeys(nodes, call.key) \ {call.key}) + 1
        /\ \A k \in DOMAIN call.nodes : call.nodes[k] = nodes[k]

(* setRoot on a node one level down that has a child, a Selected one,      *)
(* with a sibling left behind.                                             *)
C11_Witness ==
    /\ Called("setRoot")
    /\ call.key # rootId
    /\ nodes[call.key].level = 1
    /\ Size(call.nodes) = 2
    /\ Size(nodes) = 4
    /\ \E k \in DOMAIN call.nodes : nodes[k].selectedState = "Selected"

(* ---------------------------------------------------------------------- *)
(* C12: in every reachable state exactly one node of the mapping has no    *)
(* parent identifier, and it is the node whose identifier is rootId.       *)
C12_OneParentlessNode ==
    /\ Cardinality({k \in DOMAIN nodes : nodes[k].parent = NoParent}) = 1
    /\ nodes[rootId].parent = NoParent

(* ---------------------------------------------------------------------- *)
(* C13 *)
RECURSIVE ReachFrom(_, _, _)
ReachFrom(m, S, n) ==
    LET more == S \cup UNION {ChildSet(m, k) : k \in S \cap DOMAIN m}
    IN IF n = 0 \/ more = S THEN S ELSE ReachFrom(m, more, n - 1)

RECURSIVE Entries(_, _)
Entries(m, S) ==
    IF S = {} THEN 0
    ELSE LET k == CHOOSE x \in S : TRUE
         IN Len(m[k].children) + Entries(m, S \ {k})

(* All keys are reachable from r and the child lists hold one entry fewer  *)
(* than there are keys: each key other than r needs an entry to be         *)
(* reachable, so each has exactly one, r has none, and no entry is left    *)
(* for a second path or for an identifier outside the mapping.             *)
SingleTree(m, r) ==
    /\ r \in DOMAIN m
    /\ ReachFrom(m, {r}, Size(m)) = DOMAIN m
    /\ Entries(m, DOMAIN m) = Size(m) - 1

(* C13: in every reachable tree rootId is a key of the mapping, every key  *)
(* is reachable from rootId through child lists, and no node is reachable  *)
(* by two paths: the root is in no child list and every other node is in   *)
(* the child list of exactly one node, once. It is stated of the tree a    *)
(* handler hands to setTree, and of the installed tree where no handler is *)
(* pending (a pending handler leaves the installed tree as it was).        *)
C13_SingleTree ==
    IF call = Idle THEN SingleTree(nodes, rootId)
    ELSE SingleTree(call.nodes, call.rootId)

(* deleteNode in a tree whose root is not the first root (after setRoot or *)
(* reset): three nodes before, two after.                                  *)
C13_Witness ==
    /\ Done("deleteNode")
    /\ rootId # 1
    /\ Size(call.nodes) = 2
    /\ Size(nodes) = 3

(* ---------------------------------------------------------------------- *)
(* C14 *)
LevelsStep(m) ==
    \A k \in DOMAIN m :
        m[k].parent \in DOMAIN m => m[k].level = m[m[k].parent].level + 1

(* C14: in every reachable tree every node whose parent is in the mapping  *)
(* is one level below that parent.                                         *)
C14_LevelBelowParent ==
    /\ LevelsStep(nodes)
    /\ call # Idle => LevelsStep(call.nodes)

(* addChild under the child of a re-rooted root whose level is not 0. *)
C14_Witness ==
    /\ Done("addChild")
    /\ nodes[rootId].level = 1
    /\ call.key # rootId
    /\ \E u \in (DOMAIN call.nodes) \ (DOMAIN nodes) : call.nodes[u].level = 3

(* ---------------------------------------------------------------------- *)
(* C15: addChild with a parent node whose identifier is no key of the      *)
(* current mapping is rejected: the mapping and rootId stay as they are    *)
(* and no entry appears under the missing parent's key.                    *)
C15_StaleParentRejected ==
    [][\A k \in Ids, d \in DataInputs :
          AddChildStale(k, d) =>
              /\ call'.nodes = call.nodes
              /\ call'.rootId = call.rootId
              /\ k \notin DOMAIN call'.nodes]_vars

(* ---------------------------------------------------------------------- *)
(* C16 *)
Twice(name, m, k) ==
    LET once == modifyRecursively(m[k], name, m)
    IN modifyRecursively(once[k], name, once)

(* C16: for every reachable tree (every tree is installed in a state with  *)
(* no handler pending) and every node N, fold-all on N applied twice in a  *)
(* row yields the tree that one application yields, and so does            *)
(* expand-all.                                                             *)
C16_FoldExpandIdempotent ==
    call = Idle => \A k \in DOMAIN nodes :
        /\ Twice("setClosed", nodes, k) = modifyRecursively(nodes[k], "setClosed", nodes)
        /\ Twice("setOpen", nodes, k) = modifyRecursively(nodes[k], "setOpen", nodes)

(* fold-all called on a node whose subtree of three nodes is closed       *)
(* already (a second application), while the tree holds an open node.     *)
C16_Witness ==
    /\ Called("foldRecursively")
    /\ Cardinality(SubtreeKeys(nodes, call.key)) >= 3
    /\ \A d \in SubtreeKeys(nodes, call.key) : ~nodes[d].isOpen
    /\ \E k \in DOMAIN nodes : nodes[k].isOpen
    /\ call.nodes = nodes

(* ---------------------------------------------------------------------- *)
(* C17 *)
OpenStateSet(op, value) ==
    Called(op) =>
        /\ DOMAIN call.nodes = DOMAIN nodes
        /\ call.rootId = rootId
        /\ \A k \in SubtreeKeys(nodes, call.key) :
               call.nodes[k] = [nodes[k] EXCEPT !.isOpen = value]
        /\ \A k \in (DOMAIN nodes) \ SubtreeKeys(nodes, call.key) :
               call.nodes[k] = nodes[k]

(* C17: foldRecursively(N) sets isOpen = false and expandRecursively(N)    *)
(* sets isOpen = true on N and every descendant of N and changes nothing   *)
(* else: no other field, no node outside the subtree, not the key set,     *)
(* not rootId.                                                             *)
C17_FoldExpandFrame ==
    /\ OpenStateSet("foldRecursively", FALSE)
    /\ OpenStateSet("expandRecursively", TRUE)

(* fold-all on a node below the root whose child is open, the root open    *)
(* and a Selected node in the subtree.                                     *)
C17_Witness ==
    /\ Called("foldRecursively")
    /\ call.key # rootId
    /\ nodes[rootId].isOpen
    /\ \E d \in SubtreeKeys(nodes, call.key) :
           d # call.key /\ nodes[d].isOpen /\ nodes[d].selectedState = "Selected"

(* ---------------------------------------------------------------------- *)
(* C18 *)
Scenario(m, R, A, B, C) ==
    /\ DOMAIN m = {R, A, B, C}
    /\ Cardinality({R, A, B, C}) = 4
    /\ ChildSet(m, R) = {A, B}
    /\ m[A].children = <<>>
    /\ m[B].children = <<C>>
    /\ m[C].children = <<>>
    /\ m[R].selectedState = "Partial"
    /\ m[A].selectedState = "Selected"
    /\ m[B].selectedState = "Unselected"
    /\ m[C].selectedState = "Unselected"

(* C18: from root R (Partial) with children A (Selected leaf) and B        *)
(* (Unselected) where B has the child C (Unselected), setSelected(A)       *)
(* yields A = Unselected and R = Unselected, and a following               *)
(* setSelected(B) yields B = Selected, C = Selected, A still Unselected    *)
(* and R = Partial.                                                        *)
C18_ScenarioToggles ==
    Size(nodes) = 4 => \A A, B, C \in DOMAIN nodes :
        Scenario(nodes, rootId, A, B, C) =>
            LET first == setSelectedNodes(nodes[A], nodes)
                second == setSelectedNodes(first[B], first)
            IN /\ first[A].selectedState = "Unselected"
               /\ first[rootId].selectedState = "Unselected"
               /\ second[B].selectedState = "Selected"
               /\ second[C].selectedState = "Selected"
               /\ second[A].selectedState = "Unselected"
               /\ second[rootId].selectedState = "Partial"
               /\ (Called("setSelected") /\ call.key = A) => call.nodes = first

(* setSelected(A) called in the scenario's tree. *)
C18_Witness ==
    /\ Called("setSelected")
    /\ \E A, B, C \in DOMAIN nodes :
           Scenario(nodes, rootId, A, B, C) /\ call.key = A

(* ---------------------------------------------------------------------- *)
(* C19: editNodeData(N, text) replaces the label of N and nothing else:    *)
(* N's other fields, every other node, the key set and rootId stay.        *)
C19_EditFrame ==
    Called("editNodeData") =>
        /\ DOMAIN call.nodes = DOMAIN nodes
        /\ call.rootId = rootId
        /\ call.nodes[call.key] = [nodes[call.key] EXCEPT !.data = call.data]
        /\ \A k \in (DOMAIN nodes) \ {call.key} : call.nodes[k] = nodes[k]

(* The label changes, on a closed Partial node with children. *)
C19_Witness ==
    /\ Called("editNodeData")
    /\ nodes[call.key].data # call.data
    /\ nodes[call.key].selectedState = "Partial"
    /\ ~nodes[call.key].isOpen
    /\ Size(nodes) >= 3

(* ---------------------------------------------------------------------- *)
(* C20: reset yields a mapping of exactly one node, keyed by rootId, whose *)
(* identifier is not in the previous mapping, with level 0, isOpen true,   *)
(* Unselected, an empty child list and no parent.                          *)
C20_ResetFreshRoot ==
    Called("resetTree") =>
        /\ DOMAIN call.nodes = {call.rootId}
        /\ call.rootId \notin DOMAIN nodes
        /\ call.nodes[call.rootId].key = call.rootId
        /\ call.nodes[call.rootId].level = 0
        /\ call.nodes[call.rootId].isOpen = TRUE
        /\ call.nodes[call.rootId].selectedState = "Unselected"
        /\ call.nodes[call.rootId].children = <<>>
        /\ call.nodes[call.rootId].parent = NoParent

(* reset of a re-rooted tree of two nodes whose root is closed, Selected   *)
(* and keeps a parent identifier.                                          *)
C20_Witness ==
    /\ Called("resetTree")
    /\ Size(nodes) = 2
    /\ nodes[rootId].parent # NoParent
    /\ ~nodes[rootId].isOpen
    /\ nodes[rootId].selectedState = "Selected"

(* ---------------------------------------------------------------------- *)
(* C21 *)
Ancestors(m, x) == {a \in DOMAIN m : a # x /\ x \in SubtreeKeys(m, a)}

FromChildren(m, k) ==
    IF Len(m[k].children) = 0 THEN m[k].selectedState = "Unselected"
    ELSE IF AllChildren(m, k, "Selected") THEN m[k].selectedState = "Selected"
    ELSE IF AllChildren(m, k, "Unselected") THEN m[k].selectedState = "Unselected"
    ELSE m[k].selectedState = "Partial"

(* C21: after deleteNode on a node other than the root, the former parent  *)
(* of the target and every ancestor above it carry the selectedState their *)
(* remaining children determine; a former parent left without children is  *)
(* Unselected whatever it was before.                                      *)
C21_DeleteRecomputesAncestors ==
    Done("deleteNode") =>
        LET parent == nodes[call.key].parent
        IN /\ \A a \in Ancestors(nodes, call.key) : FromChildren(call.nodes, a)
           /\ Len(call.nodes[parent].children) = 0 =>
                  call.nodes[parent].selectedState = "Unselected"

(* The only child of a Selected parent below a Selected root is deleted:   *)
(* the parent and the root both become Unselected.                         *)
C21_Witness ==
    /\ Done("deleteNode")
    /\ nodes[call.key].parent # rootId
    /\ nodes[nodes[call.key].parent].selectedState = "Selected"
    /\ nodes[rootId].selectedState = "Selected"
    /\ call.nodes[nodes[call.key].parent].children = <<>>
    /\ call.nodes[nodes[call.key].parent].selectedState = "Unselected"
    /\ call.nodes[rootId].selectedState = "Unselected"

(* ---------------------------------------------------------------------- *)
(* C22 *)
(* C22: on the same tree and target, the deleteNode of TreeView.tsx and    *)
(* the deleteNode with updateParentCheckboxes yield the same keys, the     *)
(* same child lists and the same rootId; their nodes are equal except for  *)
(* the selectedState of the ancestors of the target, which the TreeView.tsx *)
(* variant leaves as it was before the call.                               *)
C22_DeleteVariantsAgree ==
    Done("deleteNode") =>
        LET plain == deleteNodeNodesTsx(nodes[call.key], nodes)
            above == Ancestors(nodes, call.key)
        IN /\ DOMAIN plain = DOMAIN call.nodes
           /\ call.rootId = rootId
           /\ \A k \in DOMAIN plain :
                  /\ plain[k].children = call.nodes[k].children
                  /\ SameButSelected(plain[k], call.nodes[k])
                  /\ k \notin above => plain[k] = call.nodes[k]
                  /\ k \in above => plain[k].selectedState = nodes[k].selectedState

(* A Partial parent loses a child and the two variants disagree on it. *)
C22_Witness ==
    /\ Done("deleteNode")
    /\ nodes[nodes[call.key].parent].selectedState = "Partial"
    /\ call.nodes[nodes[call.key].parent].selectedState # "Partial"
    /\ deleteNodeNodesTsx(nodes[call.key], nodes)[nodes[call.key].parent].selectedState
           = "Partial"

(* ---------------------------------------------------------------------- *)
(* C23 *)
SelectedKeys(m) == {k \in DOMAIN m : m[k].selectedState = "Selected"}

(* C23: in every reachable tree every descendant of a Selected node is     *)
(* Selected, and a deleteSelected that is not rejected removes from the    *)
(* mapping exactly the nodes whose selectedState is Selected.              *)
C23_ExactlySelectedRemoved ==
    /\ \A k \in SelectedKeys(nodes) : SubtreeKeys(nodes, k) \subseteq SelectedKeys(nodes)
    /\ Done("deleteSelected") =>
           (DOMAIN nodes) \ (DOMAIN call.nodes) = SelectedKeys(nodes)

(* A Selected node with a child of its own is removed next to an           *)
(* Unselected sibling, under a Partial root.                               *)
C23_Witness ==
    /\ Done("deleteSelected")
    /\ nodes[rootId].selectedState = "Partial"
    /\ \E k \in SelectedKeys(nodes) :
           /\ Len(nodes[k].children) > 0
           /\ k \notin DOMAIN call.nodes
    /\ Size(call.nodes) >= 2

(* ---------------------------------------------------------------------- *)
(* C24 *)
(* setSelected(N), a render, and setSelected on the N of the new tree. *)
SetSelectedTwice(m, k) ==
    LET once == setSelectedNodes(m[k], m)
    IN setSelectedNodes(once[k], once)

(* C24: for every reachable tree (every tree is installed in a state with  *)
(* no handler pending) and every node N, two successive setSelected(N)     *)
(* give back the very same mapping when N is Selected or Unselected, and   *)
(* leave every node of N's subtree Unselected when N is Partial.           *)
C24_SetSelectedTwice ==
    call = Idle => \A k \in DOMAIN nodes :
        IF nodes[k].selectedState = "Partial"
        THEN \A d \in SubtreeKeys(nodes, k) :
                 SetSelectedTwice(nodes, k)[d].selectedState = "Unselected"
        ELSE SetSelectedTwice(nodes, k) = nodes

(* A tree of four nodes with a Partial node below a Partial root and a     *)
(* Selected leaf: both cases of the claim occur, with ancestors that the   *)
(* first call changes.                                                     *)
C24_Witness ==
    /\ call = Idle
    /\ Size(nodes) = 4
    /\ nodes[rootId].selectedState = "Partial"
    /\ \E k \in (DOMAIN nodes) \ {rootId} :
           /\ nodes[k].selectedState = "Partial"
           /\ \E c \in ChildSet(nodes, k) :
                  /\ nodes[c].selectedState = "Selected"
                  /\ setSelectedNodes(nodes[c], nodes)[k].selectedState = "Unselected"

(* ---------------------------------------------------------------------- *)
(* C25 *)
StaleParentAbsent(m, r) == m[r].parent \notin DOMAIN m

Issued(m, r) == (DOMAIN m) \cup ({m[r].parent} \ {NoParent})

(* C25: in every reachable state the parent identifier the root carries is *)
(* no key of the mapping, so setSelected and deleteNode, whose upward walk *)
(* follows the parent identifiers, write no key outside the mapping they   *)
(* were given; a key a handler adds to the mapping is the identifier just  *)
(* drawn by addChild or reset, and it is greater than every identifier of  *)
(* the tree and than the root's parent identifier, hence no identifier of  *)
(* a node removed before.                                                  *)
C25_StaleParentNotAKey ==
    /\ StaleParentAbsent(nodes, rootId)
    /\ \A j \in Issued(nodes, rootId) : j < nextId
    /\ call # Idle =>
           /\ StaleParentAbsent(call.nodes, call.rootId)
           /\ (Called("setSelected") \/ Called("deleteNode")) =>
                  DOMAIN call.nodes \subseteq DOMAIN nodes
           /\ \A k \in (DOMAIN call.nodes) \ (DOMAIN nodes) :
                  /\ Called("addChild") \/ Called("resetTree")
                  /\ k = nextId - 1
                  /\ \A j \in Issued(nodes, rootId) : j < k

(* In a tree re-rooted at a former child, setSelected on a node below the  *)
(* root walks up to the root, changes its state and stops there.           *)
C25_Witness ==
    /\ Done("setSelected")
    /\ nodes[rootId].parent # NoParent
    /\ call.key # rootId
    /\ call.nodes[rootId].selectedState # nodes[rootId].selectedState
    /\ DOMAIN call.nodes = DOMAIN nodes

====
